---- MODULE Spec2Model ----
(***************************************************************************)
(* Model of gen_se.py: the worldsheet associahedron prefactor              *)
(* (worldsheet_associahedron) and the polynomial scattering equations      *)
(* (scattering_equations with its closures calc_a_var, calc_sA, calc_zA).  *)
(*                                                                         *)
(* Ring elements are modelled by what the ring arithmetic does to them:    *)
(*   - an element of RA that the code builds is a linear form in the       *)
(*     generators a1..a_len, kept as its coefficient vector;               *)
(*   - an element of RZ over RA is a map from monomials (degree vectors)   *)
(*     to such coefficient vectors;                                        *)
(*   - the prefactor denominator is a product of linear forms in the       *)
(*     puncture variables, kept as the sequence of its factors, each       *)
(*     factor a coefficient vector indexed by 0 (constant) and 1..NZ.      *)
(* Python list indexing is modelled with its wrap-around for negative      *)
(* positions and its IndexError outside the list.                          *)
(***************************************************************************)
EXTENDS Integers, Sequences, FiniteSets

\* ---------------------------------------------------------------- bounds
\* Largest number of points n that is explored.
MaxN == 6
\* Arguments of a stand-alone calc_a_var call range over -ArgSpan .. MaxN+ArgSpan+1.
ArgSpan == 7
\* len(A_vars) ranges over 0 .. n(n-3)/2 + MaxExtra.
MaxExtra == 1

VARIABLES
    pc,        \* position of the running call
    n,         \* the argument n
    A_vars,    \* RA.variables(): the generators of RA, a_k kept as k
    arg_i,     \* calc_a_var: first argument
    arg_j,     \* calc_a_var: second argument
    arg_A,     \* calc_zA: the subset, an ascending tuple of labels
    ret,       \* value returned (or carried by the raised exception)
    reads,     \* raw positions at which A_vars[...] has been subscripted
    degrees,   \* calc_zA: the list degrees
    slots,     \* raw positions at which degrees[...] has been assigned
    Z,         \* worldsheet_associahedron: the argument Z, a list of ring elements
    form_dnm,  \* worldsheet_associahedron: running denominator
    prev,      \* worldsheet_associahedron: previous variable
    wi,        \* worldsheet_associahedron: loop variable i
    l,         \* scattering_equations: equation index
    k,         \* scattering_equations: combinations consumed for this l
    acc,       \* scattering_equations: partial sum of the running sum(...)
    P,         \* scattering_equations: the list P
    seen       \* seen[l]: the tuples taken from combinations(n_set, l+1) so far

vars == <<pc, n, A_vars, arg_i, arg_j, arg_A, ret, reads, degrees, slots, Z, form_dnm, prev, wi, l, k, acc, P, seen>>

\* ------------------------------------------------------- Python helpers
\* range(a, b) as a tuple.
Range(a, b) == [x \in 1..(b - a) |-> a + x - 1]

\* Number of generators a caller builds for n points: n * (n - 3) // 2.
n_a_vars(m) == (m * (m - 3)) \div 2

\* Position (1-based) that the subscript s[p] reaches in a list of length
\* len: p itself when 0 <= p < len, wrapped when -len <= p < 0, and 0
\* (no element: IndexError) otherwise.
ListPos(len, p) ==
    IF p >= 0 /\ p < len THEN p + 1
    ELSE IF p < 0 /\ p >= -len THEN len + p + 1
    ELSE 0

Zero == [kind |-> "zero", var |-> 0]
AVar(v) == [kind |-> "var", var |-> v]
Raised(e) == [kind |-> e, var |-> 0]

\* ---------------------------------------------------------- calc_a_var
\* i = ((i - 1) % n) + 1
Reduce(x) == ((x - 1) % n) + 1

\* Mutant: the triangular packing without the correction of the first row.
FlatIndex_NoFirstRow(i, j) == (i - 1) * n + j - (((i + 2) * (i + 1)) \div 2)

\* ind = (i - 1) * n + j - ((i + 2) * (i + 1) // 2) + (1 if i == 1 else 0)
FlatIndex(i, j) ==
    (i - 1) * n + j - (((i + 2) * (i + 1)) \div 2) + (IF i = 1 THEN 1 ELSE 0)

\* Mutant: the pair is left in argument order.
Ordered_NoSwap(i, j) == <<i, j>>

\* if i > j: i,j = j,i
Ordered(i, j) == IF i > j THEN <<j, i>> ELSE <<i, j>>

\* Mutant: the boundary pair (1,n) is not special-cased.
IsZeroPair_NoBoundary(i, j) == j = i + 1

\* j == i + 1 or (i,j) == (1,n), on the ordered pair.
IsZeroPair(i, j) == j = i + 1 \/ (i = 1 /\ j = n)

\* The closure calc_a_var(i, j): [val |-> returned value or exception,
\* rd |-> raw positions at which it subscripted A_vars].
calc_a_var(i0, j0) ==
    LET ri == Reduce(i0)
        rj == Reduce(j0)
        i == Ordered(ri, rj)[1]
        j == Ordered(ri, rj)[2]
        ind == FlatIndex(i, j)
    IN  IF ri = rj THEN [val |-> Zero, rd |-> {}]
        ELSE IF IsZeroPair(i, j) THEN [val |-> Zero, rd |-> {}]
        ELSE IF ~(ind <= Len(A_vars)) THEN [val |-> Raised("AssertionError"), rd |-> {}]
        ELSE IF ListPos(Len(A_vars), ind - 1) = 0
             THEN [val |-> Raised("IndexError"), rd |-> {ind - 1}]
             ELSE [val |-> AVar(A_vars[ListPos(Len(A_vars), ind - 1)]), rd |-> {ind - 1}]

NoPoly == <<>>

\* ------------------------------------------------------------- calc_zA
\* [0] * m: the empty list when m <= 0.
Zeros(m) == [x \in 1..m |-> 0]

\* Mutant: the slot is taken one too high (a - 1 instead of a - 1 - 1).
ZASlot_OffByOne(a) == a - 1

\* The subscript in degrees[a-1-1].
ZASlot(a) == a - 1 - 1

\* if a >= n - 1: continue
ZASkip(a) == a >= n - 1

\* One pass of the loop body of calc_zA on the list d for the label a:
\* [err |-> IndexError raised, d |-> the list, w |-> raw positions assigned].
ZAStep(d, a) ==
    IF ZASkip(a) THEN [err |-> FALSE, d |-> d, w |-> {}]
    ELSE IF ListPos(Len(d), ZASlot(a)) = 0
         THEN [err |-> TRUE, d |-> d, w |-> {}]
         ELSE [err |-> FALSE,
               d |-> [d EXCEPT ![ListPos(Len(d), ZASlot(a))] = 1],
               w |-> {ZASlot(a)}]

RECURSIVE ZALoop(_, _, _)
ZALoop(A, t, r) ==
    IF t > Len(A) \/ r.err THEN r
    ELSE LET s == ZAStep(r.d, A[t])
         IN  ZALoop(A, t + 1, [err |-> s.err, d |-> s.d, w |-> r.w \cup s.w])

\* The closure calc_zA(A); the monomial Monomial(RZ, degrees) is kept as
\* its degree vector r.d.
calc_zA(A) == ZALoop(A, 1, [err |-> FALSE, d |-> Zeros(n - 3), w |-> {}])

\* --------------------------------------- stand-alone calls of calc_a_var
ArgRange == (0 - ArgSpan) .. (MaxN + ArgSpan + 1)
LenRange(m) == 0 .. ((IF n_a_vars(m) > 0 THEN n_a_vars(m) ELSE 0) + MaxExtra)

InitAVar ==
    /\ pc = "avar_call"
    /\ n \in 4..MaxN
    /\ \E len \in LenRange(n) : A_vars = Range(1, len + 1)
    /\ arg_i \in ArgRange /\ arg_j \in ArgRange
    /\ arg_A = <<>>
    /\ ret = Zero /\ reads = {}
    /\ degrees = <<>> /\ slots = {}
    /\ Z = <<>> /\ form_dnm = <<>> /\ prev = <<>> /\ wi = 0
    /\ l = 0 /\ k = 0 /\ acc = NoPoly /\ P = <<>> /\ seen = <<>>

CallAVar ==
    /\ pc = "avar_call"
    /\ pc' = "avar_done"
    /\ ret' = calc_a_var(arg_i, arg_j).val
    /\ reads' = calc_a_var(arg_i, arg_j).rd
    /\ UNCHANGED <<n, A_vars, arg_i, arg_j, arg_A, degrees, slots, Z, form_dnm, prev, wi, l, k, acc, P, seen>>

NextAVar == CallAVar

SpecAVar == InitAVar /\ [][NextAVar]_vars

\* -------------------------------------------------------------- calc_sA
\* itertools.combinations(pool, r): the r-tuples of pool in lexicographic
\* order of their positions.
RECURSIVE combinations(_, _)
combinations(pool, r) ==
    IF r = 0 THEN << <<>> >>
    ELSE IF Len(pool) < r THEN <<>>
    ELSE LET with == combinations(Tail(pool), r - 1)
         IN  [x \in 1..Len(with) |-> <<Head(pool)>> \o with[x]]
                 \o combinations(Tail(pool), r)

\* RA(0): the zero linear form in the generators of RA.
RAZero == [x \in 1..Len(A_vars) |-> 0]

\* sA after adding sign * c, where c is what calc_a_var returned.
SAAdd(sA, c, sign) ==
    IF c.kind = "var" THEN [sA EXCEPT ![c.var] = @ + sign] ELSE sA

\* One call of calc_a_var inside the sum: r is [err |-> the exception
\* raised so far or "", val |-> sA, rd |-> positions subscripted so far].
SACall(r, i, j, sign) ==
    IF r.err # "" THEN r
    ELSE LET c == calc_a_var(i, j)
         IN  IF c.val.kind \in {"AssertionError", "IndexError"}
             THEN [err |-> c.val.kind, val |-> r.val, rd |-> r.rd \cup c.rd]
             ELSE [err |-> "", val |-> SAAdd(r.val, c.val, sign), rd |-> r.rd \cup c.rd]

\* assert i < j
\* sA += calc_a_var(i,j+1) + calc_a_var(i+1,j) - calc_a_var(i,j) - calc_a_var(i+1,j+1)
SAPair(r, i, j) ==
    IF ~(i < j) THEN [r EXCEPT !.err = "AssertionError"]
    ELSE SACall(SACall(SACall(SACall(r, i, j + 1, 1), i + 1, j, 1), i, j, -1),
                i + 1, j + 1, -1)

RECURSIVE SALoop(_, _, _)
SALoop(prs, t, r) ==
    IF t > Len(prs) \/ r.err # "" THEN r
    ELSE SALoop(prs, t + 1, SAPair(r, prs[t][1], prs[t][2]))

\* The closure calc_sA(A); RZ(sA) keeps the linear form as the constant
\* coefficient it is.
calc_sA(A) == SALoop(combinations(A, 2), 1, [err |-> "", val |-> RAZero, rd |-> {}])

\* ------------------------------------------------ scattering_equations
\* The monomials of RZ that a 0/1 degree vector of length n-3 can name.
Monos == [1..(n - 3) -> 0..1]

\* Elements of RZ over RA: the coefficient of every monomial.
ZeroPoly == [m \in Monos |-> RAZero]
PolyTerm(zA, sA) == [m \in Monos |-> IF m = zA THEN sA ELSE RAZero]
PolyAdd(p, q) == [m \in Monos |-> [x \in 1..Len(A_vars) |-> p[m][x] + q[m][x]]]

\* n_set = list(range(2, n + 1))
n_set == Range(2, n + 1)

\* Mutant: the loop stops one equation early.
SELoopDone_Early(ll) == ll >= n - 3

\* for l in range(1,(n-3)+1): the loop is over
SELoopDone(ll) == ll > n - 3

\* Mutant: the condition on label n is dropped.
SEFilter_None(A) == TRUE

\* if n in A
SEFilter(A) == \E t \in 1..Len(A) : A[t] = n

\* calc_zA(A) * calc_sA(A), calc_zA first: [err, val, rd].
SETerm(A) ==
    LET zA == calc_zA(A)
        sA == calc_sA(A)
    IN  IF zA.err THEN [err |-> "IndexError", val |-> ZeroPoly, rd |-> {}]
        ELSE IF sA.err # "" THEN [err |-> sA.err, val |-> ZeroPoly, rd |-> sA.rd]
        ELSE [err |-> "", val |-> PolyTerm(zA.d, sA.val), rd |-> sA.rd]

InitSE ==
    /\ pc = "se_call"
    /\ n \in 0..MaxN
    /\ \E len \in LenRange(n) : A_vars = Range(1, len + 1)
    /\ arg_i = 0 /\ arg_j = 0 /\ arg_A = <<>>
    /\ ret = Zero /\ reads = {}
    /\ degrees = <<>> /\ slots = {}
    /\ Z = <<>> /\ form_dnm = <<>> /\ prev = <<>> /\ wi = 0
    /\ l = 0 /\ k = 0 /\ acc = NoPoly /\ P = <<>> /\ seen = <<>>

\* A_vars = RA.variables(); n_set = ...; P = []; l = 1; sum starts at 0
SE_Start ==
    /\ pc = "se_call"
    /\ pc' = "se_loop"
    /\ l' = 1 /\ k' = 0
    /\ acc' = ZeroPoly
    /\ P' = <<>>
    /\ seen' = [x \in 1..(n - 3) |-> <<>>]
    /\ UNCHANGED <<n, A_vars, arg_i, arg_j, arg_A, ret, reads, degrees, slots, Z, form_dnm, prev, wi>>

\* The generator takes the next A, and n is not in A.
SE_Skip ==
    /\ pc = "se_loop"
    /\ ~SELoopDone(l)
    /\ k < Len(combinations(n_set, l + 1))
    /\ LET A == combinations(n_set, l + 1)[k + 1]
       IN  /\ ~SEFilter(A)
           /\ seen' = [seen EXCEPT ![l] = Append(@, A)]
    /\ k' = k + 1
    /\ UNCHANGED <<pc, n, A_vars, arg_i, arg_j, arg_A, ret, reads, degrees, slots, Z, form_dnm, prev, wi, l, acc, P>>

\* The generator takes the next A, n is in A, and the term is added.
SE_Term ==
    /\ pc = "se_loop"
    /\ ~SELoopDone(l)
    /\ k < Len(combinations(n_set, l + 1))
    /\ LET A == combinations(n_set, l + 1)[k + 1]
       IN  /\ SEFilter(A)
           /\ SETerm(A).err = ""
           /\ acc' = PolyAdd(acc, SETerm(A).val)
           /\ reads' = reads \cup SETerm(A).rd
           /\ seen' = [seen EXCEPT ![l] = Append(@, A)]
    /\ k' = k + 1
    /\ UNCHANGED <<pc, n, A_vars, arg_i, arg_j, arg_A, ret, degrees, slots, Z, form_dnm, prev, wi, l, P>>

\* The generator takes the next A, n is in A, and the term raises.
SE_Raise ==
    /\ pc = "se_loop"
    /\ ~SELoopDone(l)
    /\ k < Len(combinations(n_set, l + 1))
    /\ LET A == combinations(n_set, l + 1)[k + 1]
       IN  /\ SEFilter(A)
           /\ SETerm(A).err # ""
           /\ pc' = "se_" \o SETerm(A).err
           /\ reads' = reads \cup SETerm(A).rd
           /\ seen' = [seen EXCEPT ![l] = Append(@, A)]
    /\ UNCHANGED <<n, A_vars, arg_i, arg_j, arg_A, ret, degrees, slots, Z, form_dnm, prev, wi, l, k, acc, P>>

\* The generator is exhausted: P.append(sum), next l.
SE_Append ==
    /\ pc = "se_loop"
    /\ ~SELoopDone(l)
    /\ k = Len(combinations(n_set, l + 1))
    /\ P' = Append(P, acc)
    /\ l' = l + 1 /\ k' = 0
    /\ acc' = ZeroPoly
    /\ UNCHANGED <<pc, n, A_vars, arg_i, arg_j, arg_A, ret, reads, degrees, slots, Z, form_dnm, prev, wi, seen>>

\* return P
SE_Return ==
    /\ pc = "se_loop"
    /\ SELoopDone(l)
    /\ pc' = "se_done"
    /\ ret' = [kind |-> "list", var |-> P]
    /\ UNCHANGED <<n, A_vars, arg_i, arg_j, arg_A, reads, degrees, slots, Z, form_dnm, prev, wi, l, k, acc, P, seen>>

NextSE == SE_Start \/ SE_Skip \/ SE_Term \/ SE_Raise \/ SE_Append \/ SE_Return

SpecSE == InitSE /\ [][NextSE]_vars

\* ------------------------------------------- worldsheet_associahedron
\* Number of generators of the ring the elements of Z live in.
NZ == MaxN - 3

\* The generator z_{v+1} (v = 1 is z2), the constant 1 and the difference
\* of two linear forms, as coefficient vectors over 0 (constant), 1..NZ.
ZVar(v) == [t \in 0..NZ |-> IF t = v THEN 1 ELSE 0]
One == [t \in 0..NZ |-> IF t = 0 THEN 1 ELSE 0]
Sub(f, g) == [t \in 0..NZ |-> f[t] - g[t]]

\* Mutant: the running denominator starts as the empty product.
WAFirst_Empty(z0) == <<>>

\* form_dnm = Z[0]
WAFirst(z0) == <<z0>>

\* Mutant: the difference is taken the other way round.
WADiff_Reversed(p, z) == Sub(z, p)

\* (prev - Z[i])
WADiff(p, z) == Sub(p, z)

\* form_dnm *= (prev - 1)
WAClose(d, p) == Append(d, Sub(p, One))

\* All tuples of distinct generators of the ring, of every length.
ZChoices ==
    LET idx == UNION {[1..m -> 1..NZ] : m \in 0..NZ}
        inj == {s \in idx : \A a, b \in 1..Len(s) : s[a] = s[b] => a = b}
    IN  {[t \in 1..Len(s) |-> ZVar(s[t])] : s \in inj}

InitWA ==
    /\ pc = "wa_call"
    /\ n \in 0..MaxN
    /\ Z \in ZChoices
    /\ A_vars = <<>>
    /\ arg_i = 0 /\ arg_j = 0 /\ arg_A = <<>>
    /\ ret = Zero /\ reads = {}
    /\ degrees = <<>> /\ slots = {}
    /\ form_dnm = <<>> /\ prev = <<>> /\ wi = 0
    /\ l = 0 /\ k = 0 /\ acc = NoPoly /\ P = <<>> /\ seen = <<>>

\* form_dnm = Z[0]; prev = Z[0]; i = 1
WA_Init ==
    /\ pc = "wa_call"
    /\ IF ListPos(Len(Z), 0) = 0
       THEN /\ pc' = "wa_IndexError"
            /\ UNCHANGED <<form_dnm, prev, wi>>
       ELSE /\ pc' = "wa_loop"
            /\ form_dnm' = WAFirst(Z[ListPos(Len(Z), 0)])
            /\ prev' = Z[ListPos(Len(Z), 0)]
            /\ wi' = 1
    /\ UNCHANGED <<n, A_vars, arg_i, arg_j, arg_A, ret, reads, degrees, slots, Z, l, k, acc, P, seen>>

\* for i in range(1,n-3): form_dnm *= (prev - Z[i]); prev = Z[i]
WA_Body ==
    /\ pc = "wa_loop"
    /\ wi < n - 3
    /\ IF ListPos(Len(Z), wi) = 0
       THEN /\ pc' = "wa_IndexError"
            /\ UNCHANGED <<form_dnm, prev, wi>>
       ELSE /\ pc' = "wa_loop"
            /\ form_dnm' = Append(form_dnm, WADiff(prev, Z[ListPos(Len(Z), wi)]))
            /\ prev' = Z[ListPos(Len(Z), wi)]
            /\ wi' = wi + 1
    /\ UNCHANGED <<n, A_vars, arg_i, arg_j, arg_A, ret, reads, degrees, slots, Z, l, k, acc, P, seen>>

\* form_dnm *= (prev - 1); return -1 / form_dnm
WA_Return ==
    /\ pc = "wa_loop"
    /\ ~(wi < n - 3)
    /\ pc' = "wa_done"
    /\ form_dnm' = WAClose(form_dnm, prev)
    /\ ret' = [num |-> -1, dnm |-> WAClose(form_dnm, prev)]
    /\ UNCHANGED <<n, A_vars, arg_i, arg_j, arg_A, reads, degrees, slots, Z, prev, wi, l, k, acc, P, seen>>

NextWA == WA_Init \/ WA_Body \/ WA_Return

SpecWA == InitWA /\ [][NextWA]_vars

\* ------------------------------------------ stand-alone calls of calc_zA
\* The members of S in ascending order, as combinations() yields them.
RECURSIVE Ascending(_)
Ascending(S) ==
    IF S = {} THEN <<>>
    ELSE LET m == CHOOSE x \in S : \A y \in S : x <= y
         IN  <<m>> \o Ascending(S \ {m})

InitZA ==
    /\ pc = "zA_call"
    /\ n \in 4..MaxN
    /\ A_vars = Range(1, n_a_vars(n) + 1)
    /\ \E S \in SUBSET (2..n) : arg_A = Ascending(S)
    /\ arg_i = 0 /\ arg_j = 0
    /\ ret = Zero /\ reads = {}
    /\ degrees = <<>> /\ slots = {}
    /\ Z = <<>> /\ form_dnm = <<>> /\ prev = <<>> /\ wi = 0
    /\ l = 0 /\ k = 0 /\ acc = NoPoly /\ P = <<>> /\ seen = <<>>

\* degrees = [0]*(n-3)
ZA_Start ==
    /\ pc = "zA_call"
    /\ pc' = "zA_loop"
    /\ degrees' = Zeros(n - 3)
    /\ k' = 0
    /\ UNCHANGED <<n, A_vars, arg_i, arg_j, arg_A, ret, reads, slots, Z, form_dnm, prev, wi, l, acc, P, seen>>

\* for a in A: one pass of the body
ZA_Body ==
    /\ pc = "zA_loop"
    /\ k < Len(arg_A)
    /\ k' = k + 1
    /\ LET s == ZAStep(degrees, arg_A[k + 1])
       IN  /\ degrees' = s.d
           /\ slots' = slots \cup s.w
           /\ pc' = IF s.err THEN "zA_IndexError" ELSE "zA_loop"
    /\ UNCHANGED <<n, A_vars, arg_i, arg_j, arg_A, ret, reads, Z, form_dnm, prev, wi, l, acc, P, seen>>

\* zA = Monomial(RZ, degrees); return RZ(zA)
ZA_Return ==
    /\ pc = "zA_loop"
    /\ k = Len(arg_A)
    /\ pc' = "zA_done"
    /\ ret' = [kind |-> "monomial", var |-> degrees]
    /\ UNCHANGED <<n, A_vars, arg_i, arg_j, arg_A, reads, degrees, slots, Z, form_dnm, prev, wi, l, k, acc, P, seen>>

NextZA == ZA_Start \/ ZA_Body \/ ZA_Return

SpecZA == InitZA /\ [][NextZA]_vars

\* The pairs 1 <= i < j <= n with j # i+1 and (i,j) # (1,n).
PackedPairs ==
    {p \in (1..n) \X (1..n) :
        p[1] < p[2] /\ p[2] # p[1] + 1 /\ ~(p[1] = 1 /\ p[2] = n)}

\* C1: for n >= 4 the flattening index of calc_a_var, over the pairs
\* 1 <= i < j <= n with j # i+1 and (i,j) # (1,n), is a bijection onto
\* 1..n(n-3)/2: every index of the range comes from exactly one pair and
\* no pair gives an index outside it; a call on such a pair with a rightly
\* sized A_vars returns the generator at that index.
C1_FlatIndexBijection ==
    pc = "avar_done" =>
        /\ \A p \in PackedPairs : FlatIndex(p[1], p[2]) \in 1..n_a_vars(n)
        /\ \A p, q \in PackedPairs :
              FlatIndex(p[1], p[2]) = FlatIndex(q[1], q[2]) => p = q
        /\ \A x \in 1..n_a_vars(n) :
              \E p \in PackedPairs : FlatIndex(p[1], p[2]) = x
        /\ (<<arg_i, arg_j>> \in PackedPairs /\ Len(A_vars) = n_a_vars(n)) =>
              /\ ret.kind = "var"
              /\ ret.var \in 1..n_a_vars(n)
              /\ \A q \in PackedPairs :
                    calc_a_var(q[1], q[2]).val = ret => q = <<arg_i, arg_j>>

C1_Witness ==
    /\ pc = "avar_done"
    /\ n > 4
    /\ <<arg_i, arg_j>> \in PackedPairs
    /\ Len(A_vars) = n_a_vars(n)
    /\ ret = AVar(n_a_vars(n))

\* C2: for n >= 4 and every integer i, calc_a_var(i, i), calc_a_var(i, i+1)
\* (labels reduced cyclically, so (n, n+1) is (n, 1)) and calc_a_var(1, n)
\* return zero without subscripting A_vars, whatever its length.
C2_ZeroCases ==
    (/\ pc = "avar_done"
     /\ \/ arg_j = arg_i
        \/ arg_j = arg_i + 1
        \/ (arg_i = 1 /\ arg_j = n))
    => (ret = Zero /\ reads = {})

C2_Witness ==
    /\ pc = "avar_done"
    /\ arg_i = n /\ arg_j = n + 1
    /\ Len(A_vars) = n_a_vars(n)
    /\ ret = Zero /\ reads = {}

\* C8: calc_a_var is symmetric: for n >= 4 and all integers i, j the call
\* with the arguments exchanged returns the same value (zero, the same
\* generator of A_vars, or the same failure) after the same subscripting.
C8_Symmetric ==
    pc = "avar_done" =>
        /\ calc_a_var(arg_j, arg_i).val = ret
        /\ calc_a_var(arg_j, arg_i).rd = reads

C8_Witness ==
    /\ pc = "avar_done"
    /\ arg_i > n /\ arg_j < 1
    /\ Reduce(arg_i) > Reduce(arg_j)
    /\ ret.kind = "var"


\* The members of the tuple A.
Members(A) == {A[t] : t \in 1..Len(A)}

\* C7: for n >= 4 and every subset A of the labels 2..n, calc_zA builds a
\* degree vector of length n-3 whose slot a-2 (the raw position, slot s of
\* the 1-based vector being raw position s-1) is 1 exactly when some member
\* a of A has 2 <= a <= n-2 and 0 otherwise; labels n-1 and n add nothing,
\* no raw position outside 0..n-4 is assigned and no IndexError is raised.
C7_DegreeVector ==
    /\ pc # "zA_IndexError"
    /\ pc \in {"zA_loop", "zA_done"} => slots \subseteq 0..(n - 4)
    /\ pc = "zA_done" =>
          /\ ret.kind = "monomial"
          /\ Len(ret.var) = n - 3
          /\ \A s \in 1..(n - 3) :
                ret.var[s] =
                    IF \E a \in Members(arg_A) : 2 <= a /\ a <= n - 2 /\ a - 2 = s - 1
                    THEN 1 ELSE 0
          /\ calc_zA(arg_A) = [err |-> FALSE, d |-> ret.var, w |-> slots]

C7_Witness ==
    /\ pc = "zA_done"
    /\ n > 4
    /\ {2, n - 2, n - 1, n} \subseteq Members(arg_A)
    /\ ret.var[1] = 1 /\ ret.var[n - 3] = 1


\* Two products of factors are the same product: the same factors with the
\* same multiplicities, in any order.
SameProduct(s, t) ==
    /\ Len(s) = Len(t)
    /\ \A f \in {s[x] : x \in 1..Len(s)} \cup {t[x] : x \in 1..Len(t)} :
          Cardinality({x \in 1..Len(s) : s[x] = f}) =
          Cardinality({x \in 1..Len(t) : t[x] = f})

\* z_a - z_b and z_a - 1 for the generators z2 = ZVar(1), z3 = ZVar(2), ...
VarMinusVar(a, b) == [t \in 0..NZ |-> ZVar(a)[t] - ZVar(b)[t]]
VarMinusOne(a) == [t \in 0..NZ |-> ZVar(a)[t] - One[t]]

\* C3 as stated: the prefactor is -1 over the product of the consecutive
\* differences closed by (last - 1) and nothing else: for n = 6 and
\* Z = [z2, z3, z4] it is -1/((z2-z3)(z3-z4)(z4-1)), for n = 4 and
\* Z = [z2] it is -1/(z2-1).
C3_Original ==
    /\ (pc = "wa_done" /\ n = 6 /\ Z = <<ZVar(1), ZVar(2), ZVar(3)>>) =>
          /\ ret.num = -1
          /\ SameProduct(ret.dnm,
                <<VarMinusVar(1, 2), VarMinusVar(2, 3), VarMinusOne(3)>>)
    /\ (pc = "wa_done" /\ n = 4 /\ Z = <<ZVar(1)>>) =>
          /\ ret.num = -1
          /\ SameProduct(ret.dnm, <<VarMinusOne(1)>>)

\* C3 amended: the denominator also has the first variable as a factor:
\* for n = 6 and Z = [z2, z3, z4] the prefactor is
\* -1/(z2 (z2-z3)(z3-z4)(z4-1)), for n = 4 and Z = [z2] it is
\* -1/(z2 (z2-1)).
C3_Prefactor ==
    /\ (pc = "wa_done" /\ n = 6 /\ Z = <<ZVar(1), ZVar(2), ZVar(3)>>) =>
          /\ ret.num = -1
          /\ SameProduct(ret.dnm,
                <<ZVar(1), VarMinusVar(1, 2), VarMinusVar(2, 3), VarMinusOne(3)>>)
    /\ (pc = "wa_done" /\ n = 4 /\ Z = <<ZVar(1)>>) =>
          /\ ret.num = -1
          /\ SameProduct(ret.dnm, <<ZVar(1), VarMinusOne(1)>>)

C3_Witness ==
    /\ pc = "wa_done" /\ n = 6 /\ Z = <<ZVar(1), ZVar(2), ZVar(3)>>
    /\ Len(ret.dnm) = 4

\* C10: for n >= 4 and Z of length n-3 the denominator is built in one
\* pass: it starts as Z[0], is multiplied by (Z[k-1] - Z[k]) for
\* k = 1..n-4 in order and then once by (Z[n-4] - 1); the result is -1
\* over it, it has exactly n-2 factors, every variable of Z occurs in it
\* and no IndexError is raised.
C10_LinearPass ==
    (n >= 4 /\ Len(Z) = n - 3) =>
        /\ pc # "wa_IndexError"
        /\ pc = "wa_done" =>
              /\ ret.num = -1
              /\ ret.dnm = form_dnm
              /\ Len(ret.dnm) = n - 2
              /\ ret.dnm[1] = Z[1]
              /\ \A x \in 1..(n - 4) : \A t \in 0..NZ :
                    ret.dnm[x + 1][t] = Z[x][t] - Z[x + 1][t]
              /\ \A t \in 0..NZ : ret.dnm[n - 2][t] = Z[n - 3][t] - One[t]
              /\ \A x \in 1..Len(Z) : \E y \in 1..Len(ret.dnm) : \E t \in 1..NZ :
                    Z[x][t] # 0 /\ ret.dnm[y][t] # 0

C10_Witness ==
    /\ pc = "wa_done"
    /\ n > 5 /\ Len(Z) = n - 3
    /\ Z[1] # ZVar(1)
    /\ Len(ret.dnm) = n - 2

\* Total degree of a monomial.
RECURSIVE Degree(_)
Degree(m) == IF m = <<>> THEN 0 ELSE Head(m) + Degree(Tail(m))

\* C4: for n >= 4, with n(n-3)/2 invariant variables and n-3 puncture
\* variables, scattering_equations returns without raising a list of
\* exactly n-3 polynomials in the order of the equation index: the l-th
\* entry is P_l, whose monomials have degree l or l-1 and which has a
\* monomial of degree l.
C4_EquationCount ==
    (n >= 4 /\ Len(A_vars) = n_a_vars(n)) =>
        /\ pc \notin {"se_AssertionError", "se_IndexError"}
        /\ pc = "se_loop" => Len(P) = l - 1
        /\ pc = "se_done" =>
              /\ ret.kind = "list"
              /\ Len(ret.var) = n - 3
              /\ \A ll \in 1..(n - 3) :
                    /\ \A m \in Monos :
                          ret.var[ll][m] # RAZero => Degree(m) \in {ll - 1, ll}
                    /\ \E m \in Monos : Degree(m) = ll /\ ret.var[ll][m] # RAZero

C4_Witness ==
    /\ pc = "se_done"
    /\ n = 6 /\ Len(A_vars) = 9
    /\ Len(ret.var) = 3

\* The binomial coefficient C(a, b).
RECURSIVE Binom(_, _)
Binom(a, b) ==
    IF b = 0 THEN 1
    ELSE IF a = 0 THEN 0
    ELSE Binom(a - 1, b - 1) + Binom(a - 1, b)

\* The subsets of size r of the active labels 2..n.
ActiveSubsets(r) == {S \in SUBSET (2..n) : Cardinality(S) = r}

\* The sum of calc_zA(A) * calc_sA(A) over a set of subsets, in no order.
RECURSIVE SumOfTerms(_)
SumOfTerms(SS) ==
    IF SS = {} THEN ZeroPoly
    ELSE LET S == CHOOSE x \in SS : TRUE
             A == Ascending(S)
         IN  PolyAdd(PolyTerm(calc_zA(A).d, calc_sA(A).val), SumOfTerms(SS \ {S}))

\* C9: for n >= 4 and every l in 1..n-3, the subsets enumerated for P_l
\* are all C(n-1, l+1) subsets of size l+1 of the labels 2..n, each taken
\* once, and P_l is the sum of calc_zA(A) * calc_sA(A) over exactly those
\* of them that contain n, each once.
C9_SubsetSum ==
    (pc = "se_done" /\ n >= 4) =>
        \A ll \in 1..(n - 3) :
            /\ Len(seen[ll]) = Binom(n - 1, ll + 1)
            /\ {seen[ll][x] : x \in 1..Len(seen[ll])}
                  = {Ascending(S) : S \in ActiveSubsets(ll + 1)}
            /\ \A x, y \in 1..Len(seen[ll]) : seen[ll][x] = seen[ll][y] => x = y
            /\ ret.var[ll] = SumOfTerms({S \in ActiveSubsets(ll + 1) : n \in S})

C9_Witness ==
    /\ pc = "se_done"
    /\ n = 6 /\ Len(A_vars) = 9
    /\ Len(seen[2]) = 10
    /\ Cardinality({x \in 1..Len(seen[2]) : 6 \in Members(seen[2][x])}) = 6

\* C6 as stated: whenever A_vars has a length other than n(n-3)/2, for
\* n >= 4, scattering_equations aborts on the bounds check and returns no
\* polynomials, and never subscripts A_vars at a wrapped position or
\* outside the list.
C6_SizeMismatchDetected ==
    (n >= 4 /\ Len(A_vars) # n_a_vars(n)) =>
        /\ pc # "se_done"
        /\ pc # "se_IndexError"
        /\ reads \subseteq 0..(Len(A_vars) - 1)

\* C5 as stated, for the prefactor: with n < 4 and the matching sequence Z
\* of n-3 variables worldsheet_associahedron returns without raising.
C5_PrefactorNoRaise ==
    (n < 4 /\ Len(Z) = n - 3) => pc # "wa_IndexError"

====
